---- MODULE Spec2Model ----
(***************************************************************************)
(* claude-pr-reviewer.py: one invocation ("run") takes the advisory lock   *)
(* on LOCK_FILE, fetches a pull request with the source-control CLI,       *)
(* filters it by size, asks the assistant CLI for a review (retry with     *)
(* backoff), saves the review file and releases the lock.                  *)
(*                                                                         *)
(* SpecLock: NumRuns invocations interleave the steps of acquire_lock and  *)
(*           release_lock; _main_impl is one call that returns or raises.  *)
(* SpecRun:  one invocation, _main_impl and call_claude_code_cli step by   *)
(*           step, every outcome of every external call.                   *)
(* SpecRunFair: SpecRun with the run's next statement always executed.     *)
(***************************************************************************)
EXTENDS Integers, Sequences, FiniteSets, TLC

\* ------------------------------------------------------------------ bounds
NumRuns == 3
MaxLines == 5

\* ------------------------------------------------------- program constants
EXIT_SUCCESS == 0
EXIT_OTHER_ERROR == 1
EXIT_TOOL_UNAVAILABLE == 2
EXIT_SKIPPED_SIZE_generic == EXIT_OTHER_ERROR
EXIT_SKIPPED_SIZE == 3
SIZE_THRESHOLD == 10
max_retries_six == 5 + 1
max_retries == 5
base_delay == 1

Runs == 1..NumRuns
\* The process id of run p.
getpid(p) == p

\* Inodes that can ever be linked at LOCK_FILE: run p creates inode p when the
\* path is absent; StaleInode is a file left behind by an earlier invocation.
NoInode == 0
StaleInode == NumRuns + 1
Inodes == 1..(NumRuns + 1)
NoPid == 0
NoRun == 0
NotReturned == -1

VARIABLES
    pc,          \* per run: the statement it executes next
    dry_run,     \* per run: args.dry_run
    lock_fd,     \* per run: inode of the open lock file object, NoInode if none
    lockPath,    \* inode linked at LOCK_FILE, NoInode if the path does not exist
    flockOwner,  \* per inode: the run whose open file holds the flock, or NoRun
    inodeData,   \* per inode: the pid its content holds, NoPid when empty
    ret,         \* per run: value returned by main(), NotReturned before
    raised,      \* per run: main() ended by an exception
    outcome,     \* per run: the return statement that ended the run
    line_count,  \* per run: result of get_pr_diff_stats
    attempt,     \* per run: loop variable of call_claude_code_cli
    process,     \* per run: the Popen object: "None", "running", "reaped"
    kids,        \* per run: descendants alive in the group of `process`
    orphans,     \* per run: descendants alive in groups of earlier attempts
    delays,      \* per run: arguments of time.sleep, in order
    fails,       \* per run: failure kind of each failed attempt, in order
    ghCalls,     \* per run: source-control CLI invocations, in order
    ghResults,   \* per run: how each of these invocations ended, in order
    signals,     \* per run: signals sent to assistant process groups, in order
    leaders,     \* per run: assistant processes spawned and not yet reaped
    tries,       \* per run: iterations of the retry loop started so far
    pr,          \* per run: additions and deletions of the PR it is given
    startedUnder,\* per run: the runs that were inside _main_impl when it
                 \* opened LOCK_FILE
    reviewFile   \* the review file of the PR: [kind, by]

vars == <<pc, dry_run, lock_fd, lockPath, flockOwner, inodeData, ret, raised,
          outcome, line_count, attempt, process, kids, orphans, delays, fails,
          ghCalls, ghResults, signals, leaders, tries, pr, startedUnder,
          reviewFile>>

lockVars == <<lock_fd, lockPath, flockOwner, inodeData>>
cliVars == <<attempt, process, kids, orphans, delays, fails, tries, signals,
            leaders>>
fetchVars == <<line_count, ghCalls, ghResults, pr>>

\* Statements inside _main_impl (SpecRun walks them, SpecLock stays at the call).
ImplPcs == {"main_impl", "get_pr_diff_stats", "get_pr_files", "claude_version",
            "popen", "communicate", "timeout_kill", "except_cpe",
            "except_timeout", "except_other", "sleep", "save"}
InMainImpl(p) == pc[p] \in ImplPcs

PRs == [additions : 0..MaxLines, deletions : 0..MaxLines]
NoPR == [additions |-> 0, deletions |-> 0]

FileAbsent == [kind |-> "absent", by |-> NoRun]
FileOld == [kind |-> "old", by |-> NoRun]

\* No invocation holds the lock; LOCK_FILE is absent or was left behind.
InitLockFree ==
    /\ lock_fd = [p \in Runs |-> NoInode]
    /\ lockPath \in {NoInode, StaleInode}
    /\ flockOwner = [i \in Inodes |-> NoRun]
    /\ inodeData = [i \in Inodes |-> NoPid]

InitCommon ==
    /\ ret = [p \in Runs |-> NotReturned]
    /\ raised = [p \in Runs |-> FALSE]
    /\ outcome = [p \in Runs |-> "none"]
    /\ line_count = [p \in Runs |-> 0]
    /\ attempt = [p \in Runs |-> 0]
    /\ process = [p \in Runs |-> "None"]
    /\ kids = [p \in Runs |-> FALSE]
    /\ orphans = [p \in Runs |-> FALSE]
    /\ delays = [p \in Runs |-> <<>>]
    /\ fails = [p \in Runs |-> <<>>]
    /\ ghCalls = [p \in Runs |-> <<>>]
    /\ ghResults = [p \in Runs |-> <<>>]
    /\ signals = [p \in Runs |-> <<>>]
    /\ leaders = [p \in Runs |-> 0]
    /\ tries = [p \in Runs |-> 0]
    /\ startedUnder = [p \in Runs |-> {}]
    /\ reviewFile \in {FileAbsent, FileOld}

\* ------------------------------------------------------------ return paths
\* `return code` of main() without a lock to release (line 351).
Exit(p, code, label) ==
    /\ pc' = [pc EXCEPT ![p] = "done"]
    /\ ret' = [ret EXCEPT ![p] = code]
    /\ outcome' = [outcome EXCEPT ![p] = label]
    /\ UNCHANGED raised

\* `return code` inside _main_impl: the finally clause of main() runs next.
Return(p, code, label) ==
    /\ pc' = [pc EXCEPT ![p] = "unlock"]
    /\ ret' = [ret EXCEPT ![p] = code]
    /\ outcome' = [outcome EXCEPT ![p] = label]
    /\ UNCHANGED raised

\* An exception leaves _main_impl with the finally clause skipped.
RaiseNoFinally(p) ==
    /\ pc' = [pc EXCEPT ![p] = "done"]
    /\ raised' = [raised EXCEPT ![p] = TRUE]
    /\ outcome' = [outcome EXCEPT ![p] = "Raised"]
    /\ UNCHANGED ret

\* An exception leaves _main_impl: the finally clause of main() runs next and
\* the exception goes on to the caller of main().
Raise(p) ==
    /\ pc' = [pc EXCEPT ![p] = "unlock"]
    /\ raised' = [raised EXCEPT ![p] = TRUE]
    /\ outcome' = [outcome EXCEPT ![p] = "Raised"]
    /\ UNCHANGED ret

\* ------------------------------------------------------------ acquire_lock
\* open(LOCK_FILE, 'w'): creates the file when the path is absent, truncates
\* the file linked at the path otherwise; PermissionError is re-raised.
acquire_lock_open(p) ==
    /\ pc[p] = "open"
    /\ startedUnder' = [startedUnder EXCEPT ![p] = {q \in Runs \ {p} : InMainImpl(q)}]
    /\ \/ /\ lockPath = NoInode
          /\ lockPath' = p
          /\ lock_fd' = [lock_fd EXCEPT ![p] = p]
          /\ inodeData' = [inodeData EXCEPT ![p] = NoPid]
          /\ pc' = [pc EXCEPT ![p] = "flock"]
          /\ UNCHANGED <<ret, raised, outcome>>
       \/ /\ lockPath # NoInode
          /\ lock_fd' = [lock_fd EXCEPT ![p] = lockPath]
          /\ inodeData' = [inodeData EXCEPT ![lockPath] = NoPid]
          /\ pc' = [pc EXCEPT ![p] = "flock"]
          /\ UNCHANGED <<lockPath, ret, raised, outcome>>
       \/ /\ pc' = [pc EXCEPT ![p] = "done"]
          /\ raised' = [raised EXCEPT ![p] = TRUE]
          /\ outcome' = [outcome EXCEPT ![p] = "Raised"]
          /\ UNCHANGED <<lockPath, lock_fd, inodeData, ret>>
    /\ UNCHANGED <<dry_run, flockOwner, fetchVars, cliVars, reviewFile>>

\* fcntl.flock(lock_fd, LOCK_EX | LOCK_NB) on the inode the run opened:
\* EAGAIN when another open file holds it, then acquire_lock returns None and
\* main returns EXIT_OTHER_ERROR (the file object is dropped and closed).
acquire_lock_flock(p) ==
    /\ pc[p] = "flock"
    /\ UNCHANGED startedUnder
    /\ \/ /\ flockOwner[lock_fd[p]] = NoRun
          /\ flockOwner' = [flockOwner EXCEPT ![lock_fd[p]] = p]
          /\ pc' = [pc EXCEPT ![p] = "write_pid"]
          /\ UNCHANGED <<lock_fd, ret, raised, outcome>>
       \/ /\ flockOwner[lock_fd[p]] # NoRun
          /\ lock_fd' = [lock_fd EXCEPT ![p] = NoInode]
          /\ Exit(p, EXIT_OTHER_ERROR, "LockRejected")
          /\ UNCHANGED flockOwner
    /\ UNCHANGED <<dry_run, lockPath, inodeData, fetchVars, cliVars, reviewFile>>

\* lock_fd.write(str(os.getpid())); lock_fd.flush(); return lock_fd.
acquire_lock_write(p) ==
    /\ pc[p] = "write_pid"
    /\ UNCHANGED startedUnder
    /\ inodeData' = [inodeData EXCEPT ![lock_fd[p]] = getpid(p)]
    /\ pc' = [pc EXCEPT ![p] = "main_impl"]
    /\ UNCHANGED <<dry_run, lock_fd, lockPath, flockOwner, ret, raised, outcome,
                   fetchVars, cliVars, reviewFile>>

\* ------------------------------------------------------------ release_lock
\* fcntl.flock(lock_fd, LOCK_UN)
release_lock_unlock(p) ==
    /\ pc[p] = "unlock"
    /\ UNCHANGED startedUnder
    /\ flockOwner' = [flockOwner EXCEPT ![lock_fd[p]] = NoRun]
    /\ pc' = [pc EXCEPT ![p] = "close"]
    /\ UNCHANGED <<dry_run, lock_fd, lockPath, inodeData, ret, raised, outcome,
                   fetchVars, cliVars, reviewFile>>

\* lock_fd.close()
release_lock_close(p) ==
    /\ pc[p] = "close"
    /\ UNCHANGED startedUnder
    /\ lock_fd' = [lock_fd EXCEPT ![p] = NoInode]
    /\ pc' = [pc EXCEPT ![p] = "unlink"]
    /\ UNCHANGED <<dry_run, lockPath, flockOwner, inodeData, ret, raised, outcome,
                   fetchVars, cliVars, reviewFile>>

\* os.unlink(LOCK_FILE): removes whatever is linked at the path; when nothing
\* is, FileNotFoundError is caught and logged.
release_lock_unlink(p) ==
    /\ pc[p] = "unlink"
    /\ UNCHANGED startedUnder
    /\ lockPath' = NoInode
    /\ pc' = [pc EXCEPT ![p] = "done"]
    /\ UNCHANGED <<dry_run, lock_fd, flockOwner, inodeData, ret, raised, outcome,
                   fetchVars, cliVars, reviewFile>>

\* ----------------------------------------------- main: try/finally (lock)
MainImplReturns == {EXIT_SUCCESS, EXIT_OTHER_ERROR, EXIT_TOOL_UNAVAILABLE,
                    EXIT_SKIPPED_SIZE}

\* try: return _main_impl(args) / finally: release_lock(lock_fd).  The call
\* as main() sees it: it returns one of the four exit codes or raises, and
\* release_lock runs in both cases.
main_try(p) ==
    /\ pc[p] = "main_impl"
    /\ UNCHANGED startedUnder
    /\ \/ \E code \in MainImplReturns : Return(p, code, "Returned")
       \/ Raise(p)
    /\ UNCHANGED <<dry_run, lockVars, fetchVars, cliVars, reviewFile>>

InitLock ==
    /\ InitCommon
    /\ InitLockFree
    /\ pc = [p \in Runs |-> "open"]
    /\ dry_run = [p \in Runs |-> FALSE]
    /\ pr = [p \in Runs |-> NoPR]

NextLock ==
    \E p \in Runs :
        \/ acquire_lock_open(p)
        \/ acquire_lock_flock(p)
        \/ acquire_lock_write(p)
        \/ main_try(p)
        \/ release_lock_unlock(p)
        \/ release_lock_close(p)
        \/ release_lock_unlink(p)

SpecLock == InitLock /\ [][NextLock]_vars

\* ------------------------------------------------------------- _main_impl
Goto(p, label) ==
    /\ pc' = [pc EXCEPT ![p] = label]
    /\ UNCHANGED <<ret, raised, outcome>>

GhDetailsResults == {"ok", "falsy", "nonzero", "raise"}
GhDiffResults == {"nonempty", "empty", "nonzero", "raise"}

\* pr_details = get_pr_details(...); if not pr_details: return 1.
\* CalledProcessError gives None; a missing gh or unparsable output raises.
get_pr_details(p) ==
    /\ pc[p] = "main_impl"
    /\ UNCHANGED startedUnder
    /\ ghCalls' = [ghCalls EXCEPT ![p] = Append(@, "details")]
    /\ \E r \in GhDetailsResults :
          /\ ghResults' = [ghResults EXCEPT ![p] = Append(@, r)]
          /\ CASE r = "ok" -> Goto(p, "get_pr_diff_stats")
               [] r \in {"falsy", "nonzero"} -> Return(p, 1, "FetchFailed")
               [] r = "raise" -> Raise(p)
    /\ UNCHANGED <<dry_run, lockVars, line_count, pr, cliVars, reviewFile>>

\* total_lines = stats.get("additions", 0) + stats.get("deletions", 0)
total_lines(additions, deletions) == additions + deletions

BelowThresholdOff(n) == n < SIZE_THRESHOLD - 1
\* if line_count < 10
BelowThreshold(n) == n < SIZE_THRESHOLD

\* line_count = get_pr_diff_stats(...) (0 on CalledProcessError);
\* if line_count < 10: return EXIT_SKIPPED_SIZE.
get_pr_diff_stats(p) ==
    /\ pc[p] = "get_pr_diff_stats"
    /\ UNCHANGED startedUnder
    /\ ghCalls' = [ghCalls EXCEPT ![p] = Append(@, "stats")]
    /\ \/ /\ ghResults' = [ghResults EXCEPT ![p] = Append(@, "ok")]
          /\ line_count' = [line_count EXCEPT ![p] =
                               total_lines(pr[p].additions, pr[p].deletions)]
          /\ IF BelowThreshold(line_count'[p])
             THEN Return(p, EXIT_SKIPPED_SIZE, "SkippedSmall")
             ELSE Goto(p, "get_pr_files")
       \/ /\ ghResults' = [ghResults EXCEPT ![p] = Append(@, "nonzero")]
          /\ line_count' = [line_count EXCEPT ![p] = 0]
          /\ IF BelowThreshold(line_count'[p])
             THEN Return(p, EXIT_SKIPPED_SIZE, "SkippedSmall")
             ELSE Goto(p, "get_pr_files")
       \/ /\ ghResults' = [ghResults EXCEPT ![p] = Append(@, "raise")]
          /\ Raise(p)
          /\ UNCHANGED line_count
    /\ UNCHANGED <<dry_run, lockVars, pr, cliVars, reviewFile>>

DryRunGateOff(p) == FALSE
\* if args.dry_run
DryRunGate(p) == dry_run[p]

NoDiffNoneOnly(r) == r = "nonzero"
\* if not diff_content: None after CalledProcessError, or empty output
NoDiff(r) == r \in {"empty", "nonzero"}

\* diff_content = get_pr_files(...); if not diff_content: return 1;
\* if args.dry_run: return 0; else generate_review_content enters the retry
\* loop of call_claude_code_cli (attempt = 0, process = None).
get_pr_files(p) ==
    /\ pc[p] = "get_pr_files"
    /\ UNCHANGED startedUnder
    /\ ghCalls' = [ghCalls EXCEPT ![p] = Append(@, "diff")]
    /\ \E r \in GhDiffResults :
          /\ ghResults' = [ghResults EXCEPT ![p] = Append(@, r)]
          /\ CASE r = "raise" -> Raise(p)
               [] r # "raise" /\ NoDiff(r) -> Return(p, 1, "FetchFailed")
               [] OTHER ->
                    IF DryRunGate(p)
                    THEN Return(p, 0, "DryRun")
                    ELSE Goto(p, "claude_version")
    /\ UNCHANGED <<dry_run, lockVars, line_count, pr, cliVars, reviewFile>>

\* ---------------------------------------------------- call_claude_code_cli
FailKinds == {"notfound", "nonzero", "empty", "timeout", "other"}

Failed(p, kind) == fails' = [fails EXCEPT ![p] = Append(@, kind)]

BackoffDelayLinear(k) == base_delay * (k + 1)
\* delay = base_delay * (2 ** attempt)
BackoffDelay(k) == base_delay * (2 ^ k)

IsLastAttemptNever(k) == FALSE
IsLastAttemptEarly(k) == k = max_retries - 2
\* if attempt == max_retries - 1
IsLastAttempt(k) == k = max_retries - 1

\* for attempt in range(max_retries): the next iteration, process = None.
\* After the last iteration the function returns None (line 202), then
\* generate_review_content returns (None, False) and _main_impl returns
\* EXIT_TOOL_UNAVAILABLE.
NextIteration(p) ==
    IF attempt[p] + 1 < max_retries
    THEN /\ attempt' = [attempt EXCEPT ![p] = @ + 1]
         /\ process' = [process EXCEPT ![p] = "None"]
         /\ Goto(p, "claude_version")
    ELSE /\ Return(p, EXIT_TOOL_UNAVAILABLE, "ToolUnavailable")
         /\ UNCHANGED <<attempt, process>>

RetryOrGiveUpSaves(p) ==
    IF IsLastAttempt(attempt[p]) THEN Goto(p, "save") ELSE Goto(p, "sleep")
\* The tail of the three except clauses: return None on the last attempt
\* (then _main_impl returns EXIT_TOOL_UNAVAILABLE), else time.sleep(delay).
RetryOrGiveUp(p) ==
    IF IsLastAttempt(attempt[p])
    THEN Return(p, EXIT_TOOL_UNAVAILABLE, "ToolUnavailable")
    ELSE Goto(p, "sleep")

kill_leader_only(proc, kidsAlive) == kidsAlive
\* kill_process_group(process): os.getpgid(process.pid) raises
\* ProcessLookupError once the leader was reaped and nothing is signalled;
\* with the leader alive the whole group gets SIGTERM, then SIGKILL.
\* The value is whether descendants of the group are alive afterwards.
kill_process_group(proc, kidsAlive) ==
    IF proc = "running" THEN FALSE ELSE kidsAlive

\* The signals kill_process_group(process) sends to the group: none when
\* os.getpgid raised, else os.killpg(pgid, SIGTERM); time.sleep(0.5);
\* os.killpg(pgid, SIGKILL).
killpg_signals(proc) ==
    IF proc = "running" THEN <<"SIGTERM", "SIGKILL">> ELSE <<>>

process_wait_skipped(n) == n
\* process.wait(), also inside process.communicate(): the leader is reaped.
process_wait(n) == n - 1

\* subprocess.run(["claude", "--version"], capture_output=True, check=True)
claude_version(p) ==
    /\ pc[p] = "claude_version"
    /\ UNCHANGED startedUnder
    /\ tries' = [tries EXCEPT ![p] = @ + 1]
    /\ \/ /\ Goto(p, "popen")
          /\ UNCHANGED fails
       \/ \E kind \in {"notfound", "nonzero"} :
             /\ Failed(p, kind)
             /\ Goto(p, "except_cpe")
    /\ UNCHANGED <<dry_run, lockVars, fetchVars, attempt, process, kids, orphans,
                   delays, signals, leaders, reviewFile>>

\* process = subprocess.Popen(["claude", "-p", prompt, ...],
\*                            start_new_session=True)
\* A new process group: descendants of an earlier attempt that are still
\* alive are no longer reachable through `process`.
popen(p) ==
    /\ pc[p] = "popen"
    /\ UNCHANGED <<startedUnder, tries>>
    /\ \/ /\ process' = [process EXCEPT ![p] = "running"]
          /\ leaders' = [leaders EXCEPT ![p] = @ + 1]
          /\ orphans' = [orphans EXCEPT ![p] = @ \/ kids[p]]
          /\ kids' = [kids EXCEPT ![p] = FALSE]
          /\ Goto(p, "communicate")
          /\ UNCHANGED fails
       \/ /\ Failed(p, "notfound")
          /\ Goto(p, "except_cpe")
          /\ UNCHANGED <<process, kids, orphans, leaders>>
       \/ /\ Failed(p, "other")
          /\ Goto(p, "except_other")
          /\ UNCHANGED <<process, kids, orphans, leaders>>
    /\ UNCHANGED <<dry_run, lockVars, fetchVars, attempt, delays, signals,
                   reviewFile>>

\* stdout, stderr = process.communicate(timeout=CLAUDE_PROCESS_TIMEOUT) and
\* the checks of returncode and stdout.strip() after it.  The assistant may
\* leave descendants behind (left).
communicate(p) ==
    /\ pc[p] = "communicate"
    /\ UNCHANGED startedUnder
    /\ \E left \in BOOLEAN :
        /\ kids' = [kids EXCEPT ![p] = left]
        /\ \/ /\ process' = [process EXCEPT ![p] = "reaped"]
              /\ leaders' = [leaders EXCEPT ![p] = process_wait(@)]
              /\ Goto(p, "save")
              /\ UNCHANGED <<fails, attempt>>
           \/ /\ Failed(p, "empty")
              /\ leaders' = [leaders EXCEPT ![p] = process_wait(@)]
              /\ IF IsLastAttempt(attempt[p])
                 THEN /\ Return(p, EXIT_TOOL_UNAVAILABLE, "ToolUnavailable")
                      /\ process' = [process EXCEPT ![p] = "reaped"]
                      /\ UNCHANGED attempt
                 ELSE NextIteration(p)
           \/ /\ Failed(p, "nonzero")
              /\ process' = [process EXCEPT ![p] = "reaped"]
              /\ leaders' = [leaders EXCEPT ![p] = process_wait(@)]
              /\ Goto(p, "except_cpe")
              /\ UNCHANGED attempt
           \/ /\ Failed(p, "timeout")
              /\ Goto(p, "timeout_kill")
              /\ UNCHANGED <<process, attempt, leaders>>
           \/ /\ Failed(p, "other")
              /\ process' = [process EXCEPT ![p] = "reaped"]
              /\ leaders' = [leaders EXCEPT ![p] = process_wait(@)]
              /\ Goto(p, "except_other")
              /\ UNCHANGED attempt
    /\ UNCHANGED <<dry_run, lockVars, fetchVars, orphans, delays, tries, signals,
                   reviewFile>>

\* except subprocess.TimeoutExpired (inner): kill_process_group(process);
\* process.wait(); raise.
timeout_kill(p) ==
    /\ pc[p] = "timeout_kill"
    /\ UNCHANGED startedUnder
    /\ kids' = [kids EXCEPT ![p] = kill_process_group(process[p], @)]
    /\ signals' = [signals EXCEPT ![p] = @ \o killpg_signals(process[p])]
    /\ process' = [process EXCEPT ![p] = "reaped"]
    /\ leaders' = [leaders EXCEPT ![p] = process_wait(@)]
    /\ Goto(p, "except_timeout")
    /\ UNCHANGED <<dry_run, lockVars, fetchVars, attempt, orphans, delays, fails,
                   tries, reviewFile>>

\* except (subprocess.CalledProcessError, FileNotFoundError)
except_cpe(p) ==
    /\ pc[p] = "except_cpe"
    /\ UNCHANGED startedUnder
    /\ kids' = [kids EXCEPT ![p] =
                  IF process[p] # "None" THEN kill_process_group(process[p], @) ELSE @]
    /\ signals' = [signals EXCEPT ![p] =
                  IF process[p] # "None" THEN @ \o killpg_signals(process[p]) ELSE @]
    /\ RetryOrGiveUp(p)
    /\ UNCHANGED <<dry_run, lockVars, fetchVars, attempt, process, orphans, delays,
                   fails, tries, leaders, reviewFile>>

\* except subprocess.TimeoutExpired (outer): the group was killed above.
except_timeout(p) ==
    /\ pc[p] = "except_timeout"
    /\ UNCHANGED startedUnder
    /\ RetryOrGiveUp(p)
    /\ UNCHANGED <<dry_run, lockVars, fetchVars, cliVars, reviewFile>>

\* except Exception
except_other(p) ==
    /\ pc[p] = "except_other"
    /\ UNCHANGED startedUnder
    /\ kids' = [kids EXCEPT ![p] =
                  IF process[p] # "None" THEN kill_process_group(process[p], @) ELSE @]
    /\ signals' = [signals EXCEPT ![p] =
                  IF process[p] # "None" THEN @ \o killpg_signals(process[p]) ELSE @]
    /\ RetryOrGiveUp(p)
    /\ UNCHANGED <<dry_run, lockVars, fetchVars, attempt, process, orphans, delays,
                   fails, tries, leaders, reviewFile>>

\* time.sleep(delay), then the next iteration of the loop.
sleep(p) ==
    /\ pc[p] = "sleep"
    /\ UNCHANGED startedUnder
    /\ delays' = [delays EXCEPT ![p] = Append(@, BackoffDelay(attempt[p]))]
    /\ NextIteration(p)
    /\ UNCHANGED <<dry_run, lockVars, fetchVars, kids, orphans, fails, tries,
                   signals, leaders, reviewFile>>

\* ------------------------------------------------- save_review_to_obsidian
SaveResults == {"saved", "no_file", "write_error"}

SaveExitCodeIgnored(saved) == EXIT_SUCCESS
\* if review_file: return EXIT_SUCCESS / else: return EXIT_OTHER_ERROR
SaveExitCode(saved) == IF saved THEN EXIT_SUCCESS ELSE EXIT_OTHER_ERROR

\* os.makedirs; open(review_file, 'w'); f.write(content).  An error before
\* the open leaves the file alone, an error in write leaves it truncated;
\* both give None and _main_impl returns EXIT_OTHER_ERROR.
save_review_to_obsidian(p) ==
    /\ pc[p] = "save"
    /\ UNCHANGED startedUnder
    /\ \E r \in SaveResults :
          CASE r = "saved" ->
                 /\ reviewFile' = [kind |-> "review", by |-> p]
                 /\ Return(p, SaveExitCode(TRUE), "Saved")
            [] r = "no_file" ->
                 /\ UNCHANGED reviewFile
                 /\ Return(p, SaveExitCode(FALSE), "SaveFailed")
            [] r = "write_error" ->
                 /\ reviewFile' = [kind |-> "partial", by |-> p]
                 /\ Return(p, SaveExitCode(FALSE), "SaveFailed")
    /\ UNCHANGED <<dry_run, lockVars, fetchVars, cliVars>>

\* ------------------------------------------------------------- one run
TheRun == 1
OtherRun == 2

\* Another invocation is inside _main_impl and stays there.
InitLockHeld ==
    /\ lock_fd = [p \in Runs |-> IF p = OtherRun THEN OtherRun ELSE NoInode]
    /\ lockPath = OtherRun
    /\ flockOwner = [i \in Inodes |-> IF i = OtherRun THEN OtherRun ELSE NoRun]
    /\ inodeData = [i \in Inodes |-> IF i = OtherRun THEN getpid(OtherRun) ELSE NoPid]

InitRun ==
    /\ InitCommon
    /\ \/ /\ InitLockFree
          /\ pc = [p \in Runs |-> IF p = TheRun THEN "open" ELSE "absent"]
       \/ /\ InitLockHeld
          /\ pc = [p \in Runs |-> IF p = TheRun THEN "open"
                                  ELSE IF p = OtherRun THEN "main_impl" ELSE "absent"]
    /\ \E d \in BOOLEAN : dry_run = [p \in Runs |-> p = TheRun /\ d]
    /\ \E x \in PRs : pr = [p \in Runs |-> IF p = TheRun THEN x ELSE NoPR]

NextRun ==
    \E p \in {TheRun} :
        \/ acquire_lock_open(p)
        \/ acquire_lock_flock(p)
        \/ acquire_lock_write(p)
        \/ get_pr_details(p)
        \/ get_pr_diff_stats(p)
        \/ get_pr_files(p)
        \/ claude_version(p)
        \/ popen(p)
        \/ communicate(p)
        \/ timeout_kill(p)
        \/ except_cpe(p)
        \/ except_timeout(p)
        \/ except_other(p)
        \/ sleep(p)
        \/ save_review_to_obsidian(p)
        \/ release_lock_unlock(p)
        \/ release_lock_close(p)
        \/ release_lock_unlink(p)

SpecRun == InitRun /\ [][NextRun]_vars

\* The run is one thread of one process: as long as the operating system
\* schedules it and every external call returns, raises or times out
\* (communicate has timeout=CLAUDE_PROCESS_TIMEOUT, time.sleep is finite),
\* its next statement is executed.
SpecRunFair == SpecRun /\ WF_vars(NextRun)

\* ===================================================================
\* Properties
\* ===================================================================
Terminated(p) == pc[p] = "done"
PrSize(p) == pr[p].additions + pr[p].deletions
WroteReview(p) == reviewFile.by = p
AllCalls == <<"details", "stats", "diff">>

\* C1: at most one run is inside _main_impl at any time, under every
\* interleaving of the steps of acquire_lock and release_lock.
C1_MutualExclusion ==
    \A p \in Runs : \A q \in Runs \ {p} : ~(InMainImpl(p) /\ InMainImpl(q))

\* C2: a run that opened LOCK_FILE while another run was inside _main_impl,
\* and whose flock is attempted while that run is still inside it, fails at
\* once: main returns 1 and the run has made no source-control call, no
\* assistant call and no write of the review file.
C2_ContendedRunFails ==
    [][\A p \in Runs :
          ( /\ pc[p] = "flock"
            /\ pc'[p] # "flock"
            /\ \E q \in startedUnder[p] : InMainImpl(q) )
          => ( /\ pc'[p] = "done"
               /\ ret'[p] = EXIT_OTHER_ERROR
               /\ ghCalls'[p] = <<>>
               /\ tries'[p] = 0
               /\ reviewFile' = reviewFile )]_vars

\* C3: a run that has terminated holds no flock and no open lock file,
\* whatever its outcome (a return of 0, 1, 2, 3 or an exception).
C3_ReleasedAtExit ==
    \A p \in Runs :
        Terminated(p) => /\ \A i \in Inodes : flockOwner[i] # p
                         /\ lock_fd[p] = NoInode

C3_Witness ==
    /\ Terminated(TheRun)
    /\ raised[TheRun]
    /\ ghCalls[TheRun] # <<>>

\* C4 as stated, for the runs that took the lock and ended by a return: for
\* a PR of fewer than 10 changed lines the run ends with exit code 3 and does
\* not write the review file.
C4_SmallAlwaysSkipped ==
    \A p \in Runs :
        (Terminated(p) /\ PrSize(p) < 10 /\ ghCalls[p] # <<>> /\ ~raised[p])
            => (ret[p] = 3 /\ ~WroteReview(p))

\* C4 amended: for a PR of fewer than 10 changed lines no run writes the
\* review file or tries the assistant, and every run that made the
\* diff-stats call and did not end by an exception ends with exit code 3,
\* in dry-run and in normal mode alike.
C4_SmallSkippedAfterMetadata ==
    \A p \in Runs :
        PrSize(p) < 10 =>
            /\ ~WroteReview(p)
            /\ tries[p] = 0
            /\ (Terminated(p) /\ Len(ghCalls[p]) >= 2 /\ ~raised[p])
                   => (ret[p] = 3 /\ ghCalls[p] = <<"details", "stats">>)

C4_Witness ==
    /\ Terminated(TheRun)
    /\ PrSize(TheRun) = 9
    /\ ret[TheRun] = 3
    /\ dry_run[TheRun]

\* C5: a dry run never writes the review file and never starts an attempt
\* of the assistant CLI.
C5_DryRunTouchesNothing ==
    \A p \in Runs : dry_run[p] => (~WroteReview(p) /\ tries[p] = 0)

C5_Witness ==
    /\ Terminated(TheRun)
    /\ dry_run[TheRun]
    /\ ret[TheRun] = 0
    /\ ghCalls[TheRun] = AllCalls

\* C6: one call of call_claude_code_cli starts at most 5 attempts.
C6_AtMostFiveAttempts ==
    \A p \in Runs : tries[p] <= 5 /\ Len(fails[p]) <= tries[p]

C6_Witness ==
    /\ tries[TheRun] = 5
    /\ Len(fails[TheRun]) = 5
    /\ {fails[TheRun][k] : k \in 1..5} = FailKinds

\* C7 as stated: when every attempt failed the delays slept are
\* 1, 2, 4, 8, 16.
C7_DelaysUpToSixteen ==
    \A p \in Runs :
        (Len(fails[p]) = 5 /\ ret[p] = 2) => delays[p] = <<1, 2, 4, 8, 16>>

\* The delays 1, 2, 4, 8 that follow the failed attempts 0..3, without those
\* of the attempts that failed by an empty output.
SleptAfter(f) ==
    LET gaps == <<1, 2, 4, 8>>
        kept == SelectSeq(<<1, 2, 3, 4>>, LAMBDA k : f[k] # "empty")
    IN  [i \in 1..Len(kept) |-> gaps[kept[i]]]

\* C7 amended: when every attempt failed, the call slept after each of the
\* first four attempts that failed otherwise than by an empty output, 2^k
\* seconds after attempt k: the delays are 1, 2, 4, 8 without those of the
\* empty attempts, and nothing is slept after the fifth attempt.
C7_DelaysUpToEight ==
    \A p \in Runs :
        (Len(fails[p]) = 5 /\ ret[p] = 2) => delays[p] = SleptAfter(fails[p])

C7_Witness ==
    /\ Len(fails[TheRun]) = 5
    /\ ret[TheRun] = 2
    /\ delays[TheRun] = <<1, 2, 4, 8>>

\* C8: whenever attempt k failed and attempt k + 1 follows, the call slept
\* base_delay * 2^k seconds between them: when attempt n starts, n delays
\* have been slept and the k-th of them is base_delay * 2^(k - 1).
C8_BackoffBetweenAttempts ==
    \A p \in Runs :
        pc[p] = "claude_version" =>
            /\ Len(delays[p]) = attempt[p]
            /\ \A k \in 1..Len(delays[p]) : delays[p][k] = base_delay * 2 ^ (k - 1)

\* C9: a run ends with exit code 2 exactly when all 5 attempts of the
\* assistant failed, which happens only with the lock held, the three
\* fetches done, a size of at least 10 and no dry run.
C9_ToolUnavailableIffExhausted ==
    \A p \in Runs :
        /\ (ret[p] = 2) <=> (Len(fails[p]) = 5 /\ pc[p] \notin ImplPcs)
        /\ Len(fails[p]) = 5 =>
              /\ tries[p] = 5
              /\ ghCalls[p] = AllCalls
              /\ line_count[p] >= 10
              /\ ~dry_run[p]
              /\ ~WroteReview(p)
              /\ (InMainImpl(p) \/ ret[p] = 2)
        /\ outcome[p] \in {"LockRejected", "FetchFailed", "SkippedSmall",
                           "SaveFailed", "Saved", "DryRun", "Raised"}
              => ret[p] # 2

C9_Witness ==
    /\ Terminated(TheRun)
    /\ ret[TheRun] = 2
    /\ fails[TheRun][5] = "timeout"

GhExitedNonZero(p) ==
    \E i \in 1..Len(ghResults[p]) : ghResults[p][i] = "nonzero"

\* C11: a run in which one of the three source-control calls (PR metadata,
\* diff stats, PR diff) exited non-zero terminates with exit code 1 and has
\* neither invoked the assistant nor written the review file.
C11_NonZeroExitIsFetchFailure ==
    \A p \in Runs :
        (Terminated(p) /\ GhExitedNonZero(p)) =>
            /\ ret[p] = EXIT_OTHER_ERROR
            /\ tries[p] = 0
            /\ ~WroteReview(p)

\* C12: no failure of a step leaves main() as an exception: every run that
\* terminates has returned one of the exit codes 0..3.
C12_NoUncaughtFault ==
    \A p \in Runs :
        Terminated(p) =>
            /\ ~raised[p]
            /\ ret[p] \in {EXIT_SUCCESS, EXIT_OTHER_ERROR, EXIT_TOOL_UNAVAILABLE,
                           EXIT_SKIPPED_SIZE}

LastFail(p) == fails[p][Len(fails[p])]
Timeouts(p) == {i \in 1..Len(fails[p]) : fails[p][i] = "timeout"}

\* The latest attempt of p timed out, kill_process_group and process.wait()
\* have run, and the next attempt, if any, has not spawned its process yet.
TimeoutHandled(p) ==
    /\ fails[p] # <<>>
    /\ LastFail(p) = "timeout"
    /\ pc[p] # "timeout_kill"
    /\ \/ Len(fails[p]) = attempt[p] + 1
       \/ Len(fails[p]) = attempt[p] /\ pc[p] \in {"claude_version", "popen"}

\* C13: after an assistant attempt timed out, its process group got SIGTERM
\* and then SIGKILL and the leader was reaped: when call_claude_code_cli goes
\* on to the next attempt or returns, no process of that group is alive.
C13_TimeoutKillsGroup ==
    \A p \in Runs :
        TimeoutHandled(p) =>
            /\ ~kids[p]
            /\ process[p] # "running"
            /\ leaders[p] = 0
            /\ Len(signals[p]) = 2 * Cardinality(Timeouts(p))
            /\ signals[p][Len(signals[p]) - 1] = "SIGTERM"
            /\ signals[p][Len(signals[p])] = "SIGKILL"

C13_Witness ==
    /\ pc[TheRun] = "claude_version"
    /\ attempt[TheRun] = 2
    /\ fails[TheRun] = <<"timeout", "timeout">>
    /\ signals[TheRun] = <<"SIGTERM", "SIGKILL", "SIGTERM", "SIGKILL">>

C14_CodeOf(o) ==
    CASE o = "LockRejected" -> 1
      [] o = "FetchFailed" -> 1
      [] o = "SaveFailed" -> 1
      [] o = "SkippedSmall" -> 3
      [] o = "ToolUnavailable" -> 2
      [] o = "Saved" -> 0
      [] o = "DryRun" -> 0

C15_LockFileHoldsPid ==
    \A p \in Runs :
        InMainImpl(p) =>
            /\ lockPath # NoInode
            /\ inodeData[lockPath] = getpid(p)

\* C16: assistant attempts are strictly sequential: a run never has more
\* than one assistant process that was spawned and not yet reaped, and an
\* attempt starts (and spawns) only when the process of the attempt before
\* it has been reaped.
C16_AttemptsSequential ==
    \A p \in Runs :
        /\ leaders[p] \in {0, 1}
        /\ leaders[p] = 1 <=> process[p] = "running"
        /\ process[p] = "running" => pc[p] \in {"communicate", "timeout_kill"}
        /\ pc[p] \in {"claude_version", "popen", "sleep"} => leaders[p] = 0

C16_Witness ==
    /\ pc[TheRun] = "communicate"
    /\ attempt[TheRun] = 2
    /\ fails[TheRun] = <<"timeout", "nonzero">>
    /\ leaders[TheRun] = 1

\* The latest attempt of p spawned the assistant and ended with an error
\* other than a timeout (non-zero exit, unexpected exception), and the except
\* clause with its kill_process_group(process) has run.
ErrorHandled(p) ==
    /\ fails[p] # <<>>
    /\ LastFail(p) \in {"nonzero", "other"}
    /\ Len(fails[p]) = attempt[p] + 1
    /\ process[p] = "reaped"
    /\ pc[p] \notin {"except_cpe", "except_other"}

\* C17: after an assistant attempt ended with an error other than a timeout,
\* no process of its group, descendants that outlive the leader included, is
\* alive when the next attempt starts or the call returns.
C17_ErrorPathKillsGroup ==
    \A p \in Runs : ErrorHandled(p) => ~kids[p]

\* p has acquired the lock and not released it: its open lock file holds
\* the flock.
HoldsLock(p) == lock_fd[p] # NoInode /\ flockOwner[lock_fd[p]] = p

IsPrefix(s, t) == Len(s) <= Len(t) /\ s = SubSeq(t, 1, Len(s))

\* A step in which p calls the source-control CLI, starts an assistant
\* attempt or writes the review file.
PipelineStep(p) ==
    \/ ghCalls'[p] # ghCalls[p]
    \/ tries'[p] # tries[p]
    \/ process'[p] = "running" /\ process[p] # "running"
    \/ reviewFile' # reviewFile /\ reviewFile'.by = p

AssistantReached(p) ==
    tries[p] > 0 \/ pc[p] \in {"claude_version", "popen", "communicate", "save"}

C18_Order ==
    \A p \in Runs :
        /\ IsPrefix(ghCalls[p], AllCalls)
        /\ Len(ghResults[p]) = Len(ghCalls[p])
        /\ AssistantReached(p) =>
              /\ ghCalls[p] = AllCalls
              /\ ghResults[p] = <<"ok", "ok", "nonempty">>
              /\ line_count[p] >= 10
              /\ ~dry_run[p]

\* C18: a run calls the source-control CLI, invokes the assistant and writes
\* the review file only while it holds the lock; it invokes the assistant
\* only after the metadata was fetched, the size was found to be at least 10,
\* a non-empty diff was fetched and the run is not a dry run; and it makes
\* each of the three source-control calls at most once, in the order
\* metadata, stats, diff.
C18_PipelineOrdering ==
    /\ []C18_Order
    /\ [][\A p \in Runs : PipelineStep(p) => (HoldsLock(p) /\ HoldsLock(p)')]_vars

C18_Witness ==
    /\ pc[TheRun] = "communicate"
    /\ HoldsLock(TheRun)
    /\ ghCalls[TheRun] = AllCalls
    /\ line_count[TheRun] = 10
    /\ tries[TheRun] = 3

\* p is at the call of save_review_to_obsidian with the output of an
\* assistant attempt that exited with code 0 and non-empty output: the
\* current attempt did not fail and its process was reaped.
HasReview(p) ==
    /\ pc[p] = "save"
    /\ tries[p] = attempt[p] + 1
    /\ Len(fails[p]) = attempt[p]
    /\ process[p] = "reaped"

\* A step that changes the review file is the one write of a run p that has
\* a review and has not written before.
C19_WriteStep ==
    reviewFile' # reviewFile =>
        \E p \in Runs :
            /\ reviewFile'.by = p
            /\ reviewFile.by = NoRun
            /\ HasReview(p)
            /\ pc'[p] # "save"

C19_Untouched ==
    \A p \in Runs :
        (/\ Terminated(p)
         /\ \/ ret[p] \in {2, 3}
            \/ ret[p] = 1 /\ outcome[p] \in {"LockRejected", "FetchFailed"})
            => reviewFile \in {FileAbsent, FileOld}

\* C19: a run writes the review file at most once and only after an
\* assistant attempt returned non-empty output with exit code 0; a run that
\* terminates with exit code 2 or 3, or with 1 because of lock contention or
\* a fetch failure, leaves the review file exactly as it was.
C19_ReviewFileFrame ==
    /\ []C19_Untouched
    /\ [][C19_WriteStep]_vars

C19_Witness ==
    /\ Terminated(TheRun)
    /\ outcome[TheRun] = "ToolUnavailable"
    /\ fails[TheRun][5] = "empty"
    /\ reviewFile = FileOld

LoopPcs == {"claude_version", "popen", "communicate", "timeout_kill",
            "except_cpe", "except_timeout", "except_other", "sleep"}

\* call_claude_code_cli returns its output at the first attempt that did not
\* fail, gives up only after five failed attempts, and sleeps only when
\* another attempt follows.
C20_Stops ==
    \A p \in Runs :
        /\ pc[p] = "save" => (tries[p] = Len(fails[p]) + 1 /\ tries[p] <= 5)
        /\ outcome[p] = "ToolUnavailable" =>
              (tries[p] = 5 /\ Len(fails[p]) = 5 /\ Len(delays[p]) <= 4)
        /\ pc[p] = "sleep" => attempt[p] + 1 < 5
        /\ Len(delays[p]) <= attempt[p]

\* Once the call has returned, no further attempt is started and nothing
\* more is slept.
C20_NoAttemptAfterReturn ==
    \A p \in Runs :
        pc[p] \notin LoopPcs \union {"get_pr_files"} =>
            (tries'[p] = tries[p] /\ delays'[p] = delays[p])

\* The process of p has ended: main() returned one of the exit codes, or an
\* exception left it (the interpreter then exits with status 1).
Ended(p) ==
    /\ Terminated(p)
    /\ raised[p] \/ ret[p] \in {EXIT_SUCCESS, EXIT_OTHER_ERROR,
                                EXIT_TOOL_UNAVAILABLE, EXIT_SKIPPED_SIZE}

\* C20: when every external call returns or times out, the run terminates
\* with an exit code; call_claude_code_cli stops at the first attempt with
\* non-empty output, otherwise returns failure after the fifth attempt, and
\* does not sleep after the last attempt.
C20_Terminates ==
    /\ <>Ended(TheRun)
    /\ []C20_Stops
    /\ [][C20_NoAttemptAfterReturn]_vars

C20_Witness ==
    /\ Terminated(TheRun)
    /\ ret[TheRun] = 0
    /\ tries[TheRun] = 3
    /\ fails[TheRun] = <<"other", "empty">>
    /\ delays[TheRun] = <<1>>

====
